---- MODULE Spec2Model ----
(***************************************************************************)
(* Control-request gateware of the USB3 device core                        *)
(* (luna/gateware/usb/usb3/application/request.py):                        *)
(*   - SuperSpeedSetupDecoder, a three-state FSM clocked in the ss domain; *)
(*   - SuperSpeedRequestHandlerMultiplexer, purely combinational;          *)
(*   - StallOnlyRequestHandler, combinational plus one past-value register.*)
(* Each component has its own specification (SpecDecoder, SpecMux,         *)
(* SpecStall); the variables of the other components stay at their reset   *)
(* values.                                                                 *)
(*                                                                         *)
(* Clocked logic is modelled one clock edge per action.  The state after   *)
(* an edge holds the inputs that were sampled on that edge, the registers  *)
(* as they are after it, and (in pre) the registers as they were before it.*)
(***************************************************************************)
EXTENDS Integers, Sequences, FiniteSets

\* Largest value of a 32-bit stream word that is enumerated.
MaxWord == 1

\* Largest number of interfaces registered with the multiplexer.
MaxHandlers == 2

Words == 0..MaxWord

\* The stream's valid signal has one bit per byte lane; two lanes are enough
\* to tell "no lane", "some lanes" and "all lanes" apart.
Lanes == {0, 1}

\* Values of a stream's valid signal: no lane, one lane, every lane.
ValidValues == {{}, {0}, Lanes}

\* Signal.all(): every bit set.
all(v) == v = Lanes

\* Signal.any(): some bit set.
any(v) == v # {}

VARIABLES
    \* ---- SuperSpeedSetupDecoder ----
    sink,          \* self.sink as sampled on the last edge: valid, first, last, data
    header_in,     \* self.header_in as sampled on the last edge: setup
    rx_good,       \* self.rx_good as sampled on the last edge
    rx_bad,        \* self.rx_bad as sampled on the last edge
    fsm,           \* FSM state register
    packet,        \* the local capture register (elaborate's `packet`)
    self_packet,   \* the output register self.packet
    pre,           \* fsm, packet and self_packet before the last edge
    offered,       \* history: the words the stream offered to the two capture states
    captured       \* history: the words on the last two capturing FSM transitions

VARIABLES
    \* ---- SuperSpeedRequestHandlerMultiplexer ----
    interfaces,    \* self._interfaces: the registered interfaces, in registration order
    shared,        \* self.shared: the signals the multiplexer drives
    elaborated,    \* whether elaborate() has built the multiplexer
    shared_in,     \* self.shared: the signals the endpoint drives towards the handlers
    fanout         \* per registered interface, the same signals as the interface sees them

decoderVars == <<sink, header_in, rx_good, rx_bad, fsm, packet, self_packet,
                 pre, offered, captured>>

VARIABLES
    \* ---- StallOnlyRequestHandler ----
    condition,       \* self.condition: the stall predicate given to the constructor
    interface,       \* self.interface: the inputs of this step and the handshake outputs
    rx_valid_past,   \* the register inside falling_edge_detected(interface.rx.valid)
    stall_pre,       \* history: interface.rx.valid of the step before this one
    stall_at         \* index under which self.interface is registered with the multiplexer, 0 if not

muxVars == <<interfaces, shared, elaborated, shared_in, fanout>>

stallVars == <<condition, interface, rx_valid_past, stall_pre, stall_at>>

vars == <<decoderVars, muxVars, stallVars>>

\* Reset value of a SetupPacket record: word0 is bytes 0-3 (request_type,
\* request, value), word1 is bytes 4-7 (index, length).
SetupPacket == [word0 |-> 0, word1 |-> 0, received |-> FALSE]

\* The setup packets shown to the handlers.
SetupValues == {[SetupPacket EXCEPT !.word0 = w] : w \in Words}

SinkValues == [valid : ValidValues, first : BOOLEAN, last : BOOLEAN, data : Words]

HeaderValues == [setup : BOOLEAN]

DecoderStates == {"WAIT_FOR_FIRST", "PARSE_SECOND", "WAIT_FOR_VALID"}

(***************************************************************************)
(* SuperSpeedSetupDecoder.elaborate                                        *)
(***************************************************************************)

\* m.d.ss += self.packet.received.eq(0): the default that every later
\* assignment of the same edge overrides.
ClearReceivedMutant(out) == out

ClearReceivedWipes(out) == [out EXCEPT !.received = FALSE, !.word0 = 0]

ClearReceived(out) == [out EXCEPT !.received = FALSE]

\* WAIT_FOR_FIRST: packet_starting & packet_is_setup.
SetupStarting(s, h) == all(s.valid) /\ s.first /\ h.setup

\* packet.word_select(0, 32).eq(self.sink.data)
CaptureFirst(buf, s) == [buf EXCEPT !.word0 = s.data]

\* packet.word_select(1, 32).eq(self.sink.data)
CaptureSecondMutant(buf, s) == [buf EXCEPT !.word0 = s.data]

CaptureSecond(buf, s) == [buf EXCEPT !.word1 = s.data]

\* m.next of WAIT_FOR_FIRST.
WaitForFirstNext(s, h) ==
    IF SetupStarting(s, h) THEN "PARSE_SECOND" ELSE "WAIT_FOR_FIRST"

\* m.next of PARSE_SECOND: the rx_bad test comes last, so it overrides the
\* m.next chosen by the stream.
ParseSecondNextMutant(s, bad) ==
    IF all(s.valid)
    THEN (IF s.last THEN "WAIT_FOR_VALID" ELSE "WAIT_FOR_FIRST")
    ELSE IF bad THEN "WAIT_FOR_FIRST" ELSE "PARSE_SECOND"

ParseSecondNextKeepsParsing(s, bad) ==
    LET byStream == IF all(s.valid) /\ s.last THEN "WAIT_FOR_VALID" ELSE "PARSE_SECOND"
    IN  IF bad THEN "WAIT_FOR_FIRST" ELSE byStream

ParseSecondNextStreamFirst(s, bad) ==
    IF all(s.valid) /\ s.last
    THEN "WAIT_FOR_VALID"
    ELSE IF bad \/ all(s.valid) THEN "WAIT_FOR_FIRST" ELSE "PARSE_SECOND"

ParseSecondNext(s, bad) ==
    LET byStream == IF all(s.valid)
                    THEN (IF s.last THEN "WAIT_FOR_VALID" ELSE "WAIT_FOR_FIRST")
                    ELSE "PARSE_SECOND"
    IN  IF bad THEN "WAIT_FOR_FIRST" ELSE byStream

\* m.next of WAIT_FOR_VALID: two independent m.If, both to WAIT_FOR_FIRST.
WaitForValidNextIgnoresGood(good, bad) ==
    IF bad THEN "WAIT_FOR_FIRST" ELSE "WAIT_FOR_VALID"

WaitForValidNextRestarts(good, bad) == "WAIT_FOR_FIRST"

WaitForValidNext(good, bad) ==
    LET byGood == IF good THEN "WAIT_FOR_FIRST" ELSE "WAIT_FOR_VALID"
    IN  IF bad THEN "WAIT_FOR_FIRST" ELSE byGood

\* self.packet.eq(packet) followed by self.packet.received.eq(1).
PublishMutant(buf) == [buf EXCEPT !.received = TRUE, !.word1 = 0]

Publish(buf) == [buf EXCEPT !.received = TRUE]

\* The inputs sampled on this edge.
Sample(s, h, good, bad) ==
    /\ sink' = s
    /\ header_in' = h
    /\ rx_good' = good
    /\ rx_bad' = bad

\* History variables; they record what happened and drive nothing.
Observe(s, h, bad) ==
    /\ pre' = [fsm |-> fsm, packet |-> packet, self_packet |-> self_packet]
    /\ offered' =
         IF fsm = "WAIT_FOR_FIRST" /\ all(s.valid) /\ s.first /\ h.setup
         THEN [offered EXCEPT !.word0 = s.data]
         ELSE IF fsm = "PARSE_SECOND" /\ all(s.valid) /\ s.last /\ ~bad
              THEN [offered EXCEPT !.word1 = s.data]
              ELSE offered
    /\ captured' =
         IF fsm = "WAIT_FOR_FIRST" /\ fsm' = "PARSE_SECOND"
         THEN [captured EXCEPT !.word0 = s.data]
         ELSE IF fsm = "PARSE_SECOND" /\ fsm' = "WAIT_FOR_VALID"
              THEN [captured EXCEPT !.word1 = s.data]
              ELSE captured

\* One clock edge in state WAIT_FOR_FIRST.
WAIT_FOR_FIRST ==
    /\ fsm = "WAIT_FOR_FIRST"
    /\ \E s \in SinkValues, h \in HeaderValues, good \in BOOLEAN, bad \in BOOLEAN :
         /\ Sample(s, h, good, bad)
         /\ self_packet' = ClearReceived(self_packet)
         /\ packet' = IF SetupStarting(s, h) THEN CaptureFirst(packet, s) ELSE packet
         /\ fsm' = WaitForFirstNext(s, h)
         /\ Observe(s, h, bad)
    /\ UNCHANGED <<muxVars, stallVars>>

\* One clock edge in state PARSE_SECOND.
PARSE_SECOND ==
    /\ fsm = "PARSE_SECOND"
    /\ \E s \in SinkValues, h \in HeaderValues, good \in BOOLEAN, bad \in BOOLEAN :
         /\ Sample(s, h, good, bad)
         /\ self_packet' = ClearReceived(self_packet)
         /\ packet' = IF all(s.valid) /\ s.last THEN CaptureSecond(packet, s) ELSE packet
         /\ fsm' = ParseSecondNext(s, bad)
         /\ Observe(s, h, bad)
    /\ UNCHANGED <<muxVars, stallVars>>

\* One clock edge in state WAIT_FOR_VALID.
WAIT_FOR_VALID ==
    /\ fsm = "WAIT_FOR_VALID"
    /\ \E s \in SinkValues, h \in HeaderValues, good \in BOOLEAN, bad \in BOOLEAN :
         /\ Sample(s, h, good, bad)
         /\ self_packet' = IF good THEN Publish(packet) ELSE ClearReceived(self_packet)
         /\ packet' = packet
         /\ fsm' = WaitForValidNext(good, bad)
         /\ Observe(s, h, bad)
    /\ UNCHANGED <<muxVars, stallVars>>

DecoderInit ==
    /\ sink = [valid |-> {}, first |-> FALSE, last |-> FALSE, data |-> 0]
    /\ header_in = [setup |-> FALSE]
    /\ rx_good = FALSE
    /\ rx_bad = FALSE
    /\ fsm = "WAIT_FOR_FIRST"
    /\ packet = SetupPacket
    /\ self_packet = SetupPacket
    /\ pre = [fsm |-> "WAIT_FOR_FIRST", packet |-> SetupPacket, self_packet |-> SetupPacket]
    /\ offered = [word0 |-> 0, word1 |-> 0]
    /\ captured = [word0 |-> 0, word1 |-> 0]

DecoderNext == WAIT_FOR_FIRST \/ PARSE_SECOND \/ WAIT_FOR_VALID

\* A clock edge in WAIT_FOR_VALID on which the framing layer reports a
\* verdict.
Verdict == WAIT_FOR_VALID /\ (rx_good' \/ rx_bad')

(***************************************************************************)
(* SuperSpeedRequestHandlerInterface: the signals a handler drives towards *)
(* the multiplexer (fan-in).                                               *)
(***************************************************************************)

\* handshakes_out at reset: the two request strobes the multiplexer reads.
HandshakeGeneratorInterface == [send_ack |-> FALSE, send_stall |-> FALSE]

\* A stream at reset.
SuperSpeedStreamInterface ==
    [valid |-> {}, first |-> FALSE, last |-> FALSE, data |-> 0]

\* The fan-in signals of an interface at reset.
SuperSpeedRequestHandlerInterface ==
    [address_changed    |-> FALSE,
     new_address        |-> 0,
     config_changed     |-> FALSE,
     new_config         |-> 0,
     tx                 |-> SuperSpeedStreamInterface,
     tx_length          |-> 0,
     tx_sequence_number |-> 0,
     handshakes_out     |-> HandshakeGeneratorInterface]

\* The interface of the k-th handler: every trigger low, and on each value
\* signal a value of its own that no other handler and no reset value has,
\* so that the origin of every shared value can be told.
HandlerInterface(k) ==
    [SuperSpeedRequestHandlerInterface EXCEPT
        !.new_address        = k,
        !.new_config         = k + 16,
        !.tx                 = [valid |-> {}, first |-> (k % 2 = 1),
                                last |-> (k % 2 = 0), data |-> k + 32],
        !.tx_length          = k + 64,
        !.tx_sequence_number = k + 8]

\* The signals of an interface that run from the endpoint to the handler
\* (fan-out), at reset.  handshakes_in stands for the whole inbound handshake
\* channel.
SharedInputs ==
    [setup            |-> SetupPacket,
     active_config    |-> 0,
     data_requested   |-> FALSE,
     status_requested |-> FALSE,
     rx               |-> SuperSpeedStreamInterface,
     handshakes_in    |-> 0]

(***************************************************************************)
(* SuperSpeedRequestHandlerMultiplexer                                     *)
(***************************************************************************)

\* shared.<bus>.connect(interface.<bus>) for setup, rx and handshakes_in: the
\* interface's bus carries the shared bus.
connect_fanout(bus) == bus

\* The pass-through statements elaborate() emits for one interface.
pass_through_without_status(sh) ==
    [setup            |-> connect_fanout(sh.setup),
     active_config    |-> sh.active_config,
     data_requested   |-> sh.data_requested,
     status_requested |-> FALSE,
     rx               |-> connect_fanout(sh.rx),
     handshakes_in    |-> connect_fanout(sh.handshakes_in)]

pass_through(sh) ==
    [setup            |-> connect_fanout(sh.setup),
     active_config    |-> sh.active_config,
     data_requested   |-> sh.data_requested,
     status_requested |-> sh.status_requested,
     rx               |-> connect_fanout(sh.rx),
     handshakes_in    |-> connect_fanout(sh.handshakes_in)]

\* The pass-through loop over self._interfaces.
FanOut(n, sh) == [k \in 1..n |-> pass_through(sh)]

\* get_signal(interface, name), called without sub_bus.
get_signal(iface, name) == iface[name]

\* _multiplex_signals: an If / Elif / Elif ... tree over the interfaces from
\* the k-th on.  The first interface whose `when` signal is high drives the
\* `multiplex` signals of the target; when none is, the target keeps its
\* combinational default.
RECURSIVE multiplex_signals_last(_, _, _, _, _)
multiplex_signals_last(ifs, k, when, multiplex, target) ==
    IF k > Len(ifs)
    THEN target
    ELSE multiplex_signals_last(ifs, k + 1, when, multiplex,
            IF get_signal(ifs[k], when)
            THEN [name \in DOMAIN target |->
                    IF name \in multiplex THEN get_signal(ifs[k], name)
                                          ELSE target[name]]
            ELSE target)

multiplex_signals_unconditional(ifs, k, when, multiplex, target) ==
    IF k > Len(ifs)
    THEN target
    ELSE [name \in DOMAIN target |->
            IF name \in multiplex THEN get_signal(ifs[k], name)
                                  ELSE target[name]]

multiplex_signals_first_only(ifs, k, when, multiplex, target) ==
    IF k <= Len(ifs) /\ get_signal(ifs[k], when)
    THEN [name \in DOMAIN target |->
            IF name \in multiplex THEN get_signal(ifs[k], name)
                                  ELSE target[name]]
    ELSE target

RECURSIVE multiplex_signals(_, _, _, _, _)
multiplex_signals(ifs, k, when, multiplex, target) ==
    IF k > Len(ifs)
    THEN target
    ELSE IF get_signal(ifs[k], when)
         THEN [name \in DOMAIN target |->
                 IF name \in multiplex THEN get_signal(ifs[k], name)
                                       ELSE target[name]]
         ELSE multiplex_signals(ifs, k + 1, when, multiplex, target)

\* shared.tx.stream_eq(interface.tx): the stream's payload signals.
stream_eq(tx) ==
    [valid |-> tx.valid, first |-> tx.first, last |-> tx.last, data |-> tx.data]

\* shared.handshakes_out.connect(interface.handshakes_out): the handshake
\* payload of the interface.
connect(handshakes_out) ==
    [send_ack |-> handshakes_out.send_ack, send_stall |-> handshakes_out.send_stall]

\* The transmit loop: one independent If per interface, from the k-th on; a
\* later assignment overrides an earlier one.
RECURSIVE multiplex_tx_no_length(_, _, _)
multiplex_tx_no_length(ifs, k, target) ==
    IF k > Len(ifs)
    THEN target
    ELSE multiplex_tx_no_length(ifs, k + 1,
            IF any(ifs[k].tx.valid)
            THEN [target EXCEPT
                    !.tx                 = stream_eq(ifs[k].tx),
                    !.tx_sequence_number = ifs[k].tx_sequence_number]
            ELSE target)

RECURSIVE multiplex_tx(_, _, _)
multiplex_tx(ifs, k, target) ==
    IF k > Len(ifs)
    THEN target
    ELSE multiplex_tx(ifs, k + 1,
            IF any(ifs[k].tx.valid)
            THEN [target EXCEPT
                    !.tx                 = stream_eq(ifs[k].tx),
                    !.tx_sequence_number = ifs[k].tx_sequence_number,
                    !.tx_length          = ifs[k].tx_length]
            ELSE target)

\* The handshake-out loop: one independent If per interface, from the k-th
\* on; a later assignment overrides an earlier one.
RECURSIVE multiplex_handshakes_out_first(_, _, _)
multiplex_handshakes_out_first(ifs, k, target) ==
    IF k > Len(ifs)
    THEN target
    ELSE IF ifs[k].handshakes_out.send_ack \/ ifs[k].handshakes_out.send_stall
         THEN [target EXCEPT !.handshakes_out = connect(ifs[k].handshakes_out)]
         ELSE multiplex_handshakes_out_first(ifs, k + 1, target)

RECURSIVE multiplex_handshakes_out(_, _, _)
multiplex_handshakes_out(ifs, k, target) ==
    LET any_generate_signal_asserted ==
            ifs[k].handshakes_out.send_ack \/ ifs[k].handshakes_out.send_stall
    IN  IF k > Len(ifs)
        THEN target
        ELSE multiplex_handshakes_out(ifs, k + 1,
                IF any_generate_signal_asserted
                THEN [target EXCEPT !.handshakes_out = connect(ifs[k].handshakes_out)]
                ELSE target)

\* The combinational value of self.shared built by elaborate(): every signal
\* starts from its default and the four multiplexers drive it in turn.
SharedOutputsCrossed(ifs) ==
    LET addressed  == multiplex_signals(ifs, 1, "address_changed",
                          {"address_changed", "new_address"},
                          SuperSpeedRequestHandlerInterface)
        configured == multiplex_signals(ifs, 1, "address_changed",
                          {"config_changed", "new_config"}, addressed)
        transmit   == multiplex_tx(ifs, 1, configured)
    IN  multiplex_handshakes_out(ifs, 1, transmit)

SharedOutputs(ifs) ==
    LET addressed  == multiplex_signals(ifs, 1, "address_changed",
                          {"address_changed", "new_address"},
                          SuperSpeedRequestHandlerInterface)
        configured == multiplex_signals(ifs, 1, "config_changed",
                          {"config_changed", "new_config"}, addressed)
        transmit   == multiplex_tx(ifs, 1, configured)
    IN  multiplex_handshakes_out(ifs, 1, transmit)

\* add_interface(interface), before the design is elaborated.
add_interface ==
    /\ ~elaborated
    /\ Len(interfaces) < MaxHandlers
    /\ interfaces' = Append(interfaces, HandlerInterface(Len(interfaces) + 1))
    /\ fanout' = Append(fanout, SharedInputs)
    /\ UNCHANGED <<shared, elaborated, shared_in>>
    /\ UNCHANGED <<decoderVars, stallVars>>

\* elaborate(): from here on the shared signals follow the interfaces.
elaborate ==
    /\ ~elaborated
    /\ elaborated' = TRUE
    /\ shared' = SharedOutputs(interfaces)
    /\ fanout' = FanOut(Len(interfaces), shared_in)
    /\ UNCHANGED <<interfaces, shared_in>>
    /\ UNCHANGED <<decoderVars, stallVars>>

\* A handler changes its address-change strobe; the multiplexer follows.
DriveAddress ==
    /\ elaborated
    /\ \E k \in 1..Len(interfaces), strobe \in BOOLEAN :
         /\ interfaces' = [interfaces EXCEPT ![k].address_changed = strobe]
         /\ shared' = SharedOutputs(interfaces')
    /\ UNCHANGED <<elaborated, shared_in, fanout>>
    /\ UNCHANGED <<decoderVars, stallVars>>

\* A handler changes its configuration-change strobe.
DriveConfig ==
    /\ elaborated
    /\ \E k \in 1..Len(interfaces), strobe \in BOOLEAN :
         /\ interfaces' = [interfaces EXCEPT ![k].config_changed = strobe]
         /\ shared' = SharedOutputs(interfaces')
    /\ UNCHANGED <<elaborated, shared_in, fanout>>
    /\ UNCHANGED <<decoderVars, stallVars>>

\* A handler changes the valid lanes of its transmit stream.
DriveTx ==
    /\ elaborated
    /\ \E k \in 1..Len(interfaces), valid \in ValidValues :
         /\ interfaces' = [interfaces EXCEPT ![k].tx.valid = valid]
         /\ shared' = SharedOutputs(interfaces')
    /\ UNCHANGED <<elaborated, shared_in, fanout>>
    /\ UNCHANGED <<decoderVars, stallVars>>

\* A handler changes its handshake requests.
DriveHandshake ==
    /\ elaborated
    /\ \E k \in (1..Len(interfaces)) \ {stall_at}, ack \in BOOLEAN, stall \in BOOLEAN :
         /\ interfaces' = [interfaces EXCEPT
                             ![k].handshakes_out.send_ack = ack,
                             ![k].handshakes_out.send_stall = stall]
         /\ shared' = SharedOutputs(interfaces')
    /\ UNCHANGED <<elaborated, shared_in, fanout>>
    /\ UNCHANGED <<decoderVars, stallVars>>

\* The endpoint changes one of the signals it drives into self.shared; the
\* pass-through statements carry it to every interface.
DriveShared ==
    /\ elaborated
    /\ \/ \E setup \in SetupValues :
            shared_in' = [shared_in EXCEPT !.setup = setup]
       \/ \E config \in Words :
            shared_in' = [shared_in EXCEPT !.active_config = config]
       \/ \E data \in BOOLEAN, status \in BOOLEAN :
            shared_in' = [shared_in EXCEPT !.data_requested = data,
                                           !.status_requested = status]
       \/ \E rx \in SinkValues :
            shared_in' = [shared_in EXCEPT !.rx = rx]
       \/ \E handshake \in Words :
            shared_in' = [shared_in EXCEPT !.handshakes_in = handshake]
    /\ fanout' = FanOut(Len(interfaces), shared_in')
    /\ UNCHANGED <<interfaces, shared, elaborated>>
    /\ UNCHANGED <<decoderVars, stallVars>>

MuxInit ==
    /\ interfaces = <<>>
    /\ shared = SuperSpeedRequestHandlerInterface
    /\ elaborated = FALSE
    /\ shared_in = SharedInputs
    /\ fanout = <<>>

\* The multiplexer with the endpoint driving the fan-out signals and the
\* handlers driving their handshake requests.
FanOutNext ==
    \/ add_interface
    \/ elaborate
    \/ DriveShared
    \/ DriveHandshake

MuxNext ==
    \/ add_interface
    \/ elaborate
    \/ DriveAddress
    \/ DriveConfig
    \/ DriveTx
    \/ DriveHandshake

(***************************************************************************)
(* StallOnlyRequestHandler                                                 *)
(***************************************************************************)

\* The handler's view of its interface at reset.  handshakes_out carries the
\* two strobes the multiplexer reads and the stall signal elaborate() drives.
StallInterface ==
    [setup            |-> SetupPacket,
     data_requested   |-> FALSE,
     status_requested |-> FALSE,
     rx               |-> [valid |-> {}],
     handshakes_out   |-> [send_ack |-> FALSE, send_stall |-> FALSE, stall |-> FALSE]]

\* falling_edge_detected(m, signal): the lanes that were high on the previous
\* edge and are low now (past & ~signal).
falling_edge_detected(past, signal) == past \ signal

\* self.condition(self.interface.setup): a predicate is the set of setup
\* packets it accepts.
StallCondition(cond, setup) == setup \in cond.accepts

\* The combinational value of interface.handshakes_out.stall.
StallDrivenWithoutStatus(cond, iface, past) ==
    LET data_received == falling_edge_detected(past, iface.rx.valid)
    IN  IF iface.data_requested \/ any(data_received)
        THEN StallCondition(cond, iface.setup)
        ELSE FALSE

StallDriven(cond, iface, past) ==
    LET data_received == falling_edge_detected(past, iface.rx.valid)
    IN  IF iface.data_requested \/ iface.status_requested \/ any(data_received)
        THEN (IF StallCondition(cond, iface.setup) THEN TRUE ELSE FALSE)
        ELSE FALSE

\* StallOnlyRequestHandler(stall_condition): the constructor.
StallOnlyRequestHandler ==
    /\ ~condition.built
    /\ \E accepts \in SUBSET SetupValues :
         condition' = [built |-> TRUE, accepts |-> accepts]
    /\ UNCHANGED <<interface, rx_valid_past, stall_pre, stall_at>>
    /\ UNCHANGED <<decoderVars, muxVars>>

\* One clock edge of the elaborated handler: the register takes the rx.valid
\* of the step that ends, the inputs of the new step arrive, and the stall
\* output follows them combinationally.
StallElaborate ==
    /\ condition.built
    /\ \E setup \in SetupValues, data \in BOOLEAN, status \in BOOLEAN,
          valid \in SUBSET Lanes :
         LET sampled == [interface EXCEPT
                           !.setup            = setup,
                           !.data_requested   = data,
                           !.status_requested = status,
                           !.rx.valid         = valid]
         IN  /\ rx_valid_past' = interface.rx.valid
             /\ interface' = [sampled EXCEPT !.handshakes_out.stall =
                                 StallDriven(condition, sampled, rx_valid_past')]
             /\ stall_pre' = [rx_valid |-> interface.rx.valid]
    /\ UNCHANGED <<condition, stall_at>>
    /\ UNCHANGED <<decoderVars, muxVars>>

StallInit ==
    /\ condition = [built |-> FALSE, accepts |-> {}]
    /\ interface = StallInterface
    /\ rx_valid_past = {}
    /\ stall_pre = [rx_valid |-> {}]
    /\ stall_at = 0

StallNext == StallOnlyRequestHandler \/ StallElaborate

(***************************************************************************)
(* StallOnlyRequestHandler behind the multiplexer                          *)
(***************************************************************************)

\* The handler's interface as the multiplexer reads it: the handler drives
\* none of the fan-in signals but handshakes_out.
StallFanIn(iface) ==
    [SuperSpeedRequestHandlerInterface EXCEPT !.handshakes_out = iface.handshakes_out]

\* add_interface(handler.interface), before the design is elaborated.
add_stall_interface ==
    /\ condition.built
    /\ ~elaborated
    /\ stall_at = 0
    /\ Len(interfaces) < MaxHandlers
    /\ interfaces' = Append(interfaces, StallFanIn(interface))
    /\ fanout' = Append(fanout, SharedInputs)
    /\ stall_at' = Len(interfaces) + 1
    /\ UNCHANGED <<shared, elaborated, shared_in>>
    /\ UNCHANGED <<condition, interface, rx_valid_past, stall_pre>>
    /\ UNCHANGED decoderVars

\* One clock edge of the handler wired to the multiplexer: the endpoint
\* drives the shared inputs of the new step, the pass-through carries them
\* to the handler, the handler drives its stall output, and the multiplexer
\* folds the handlers' handshake requests into self.shared.
StallMuxElaborate ==
    /\ condition.built
    /\ elaborated
    /\ stall_at # 0
    /\ \E setup \in SetupValues, data \in BOOLEAN, status \in BOOLEAN,
          valid \in SUBSET Lanes :
         LET driven  == [shared_in EXCEPT
                           !.setup            = setup,
                           !.data_requested   = data,
                           !.status_requested = status,
                           !.rx.valid         = valid]
             seen    == pass_through(driven)
             sampled == [interface EXCEPT
                           !.setup            = seen.setup,
                           !.data_requested   = seen.data_requested,
                           !.status_requested = seen.status_requested,
                           !.rx.valid         = seen.rx.valid]
         IN  /\ shared_in' = driven
             /\ fanout' = FanOut(Len(interfaces), driven)
             /\ rx_valid_past' = interface.rx.valid
             /\ interface' = [sampled EXCEPT !.handshakes_out.stall =
                                 StallDriven(condition, sampled, rx_valid_past')]
             /\ stall_pre' = [rx_valid |-> interface.rx.valid]
             /\ interfaces' = [interfaces EXCEPT ![stall_at] = StallFanIn(interface')]
             /\ shared' = SharedOutputs(interfaces')
    /\ UNCHANGED <<condition, stall_at, elaborated>>
    /\ UNCHANGED decoderVars

StallMuxNext ==
    \/ StallOnlyRequestHandler
    \/ add_interface
    \/ add_stall_interface
    \/ elaborate
    \/ StallMuxElaborate
    \/ DriveHandshake

Init == DecoderInit /\ MuxInit /\ StallInit

SpecDecoder == Init /\ [][DecoderNext]_vars

\* The decoder with a framing layer that eventually reports a verdict while
\* the decoder waits for one.
SpecDecoderLive == Init /\ [][DecoderNext]_vars /\ WF_vars(Verdict)

SpecMux == Init /\ [][MuxNext]_vars

SpecStall == Init /\ [][StallNext]_vars

SpecFanOut == Init /\ [][FanOutNext]_vars

SpecStallMux == Init /\ [][StallMuxNext]_vars

MuxTypeOK ==
    /\ Len(interfaces) <= MaxHandlers
    /\ DOMAIN shared = DOMAIN SuperSpeedRequestHandlerInterface

DecoderTypeOK ==
    /\ sink \in SinkValues
    /\ fsm \in DecoderStates
    /\ packet.received = FALSE

(***************************************************************************)
(* Claims about SuperSpeedSetupDecoder, checked under SpecDecoder.         *)
(* In a state, pre.fsm is the FSM state in which the last edge found the   *)
(* decoder ("step t"), sink/header_in/rx_good/rx_bad are the inputs of     *)
(* step t, and fsm/packet/self_packet are the registers at step t+1.       *)
(***************************************************************************)

\* C1: a fully valid first word w0 with header_in.setup in WAIT_FOR_FIRST,
\* then a fully valid last word w1 in PARSE_SECOND without rx_bad, then
\* rx_good in WAIT_FOR_VALID at step t: at step t+1 self.packet carries w0
\* in bytes 0-3 and w1 in bytes 4-7 with received high, and at step t+2
\* received is low again.
C1_PublishAfterGood ==
    /\ (pre.fsm = "WAIT_FOR_VALID" /\ rx_good) =>
          /\ self_packet.word0 = offered.word0
          /\ self_packet.word1 = offered.word1
          /\ self_packet.received
    /\ pre.self_packet.received => ~self_packet.received

C1_Witness ==
    /\ pre.fsm = "WAIT_FOR_VALID"
    /\ rx_good
    /\ self_packet.received
    /\ self_packet.word0 = 1
    /\ self_packet.word1 = 0
    /\ offered = [word0 |-> 1, word1 |-> 0]

\* C2 (as claimed): in a step with rx_bad asserted, whatever the state and
\* the other inputs, nothing is published: at the next step received is low
\* and the words of self.packet are unchanged.
C2_NoPublishOnBad ==
    rx_bad =>
        /\ ~self_packet.received
        /\ self_packet.word0 = pre.self_packet.word0
        /\ self_packet.word1 = pre.self_packet.word1

\* C3 (as claimed): in a step with rx_bad asserted, whatever the state and
\* the other inputs, the decoder is in WAIT_FOR_FIRST at the next step.
C3_BadReturnsToFirst ==
    rx_bad => fsm = "WAIT_FOR_FIRST"

\* C3 (amended): in a step with rx_bad asserted in PARSE_SECOND or
\* WAIT_FOR_VALID, whatever the other inputs, the decoder is in
\* WAIT_FOR_FIRST at the next step; in WAIT_FOR_FIRST rx_bad is not looked
\* at: the decoder is in WAIT_FOR_FIRST at the next step unless the step
\* carries a fully valid first word with header_in.setup, and then it is in
\* PARSE_SECOND.
C3_BadReturnsToFirstAmended ==
    rx_bad =>
        IF pre.fsm = "WAIT_FOR_FIRST" /\ all(sink.valid) /\ sink.first /\ header_in.setup
        THEN fsm = "PARSE_SECOND"
        ELSE fsm = "WAIT_FOR_FIRST"

C3_Witness ==
    /\ rx_bad
    /\ pre.fsm = "PARSE_SECOND"
    /\ all(sink.valid)
    /\ sink.last
    /\ fsm = "WAIT_FOR_FIRST"

\* A step that drops the packet attempt: rx_bad in PARSE_SECOND, a fully
\* valid word that is not the last one in PARSE_SECOND, or a bad verdict
\* (rx_bad without rx_good) in WAIT_FOR_VALID.
Discarded ==
    \/ pre.fsm = "PARSE_SECOND" /\ (rx_bad \/ (all(sink.valid) /\ ~sink.last))
    \/ pre.fsm = "WAIT_FOR_VALID" /\ rx_bad /\ ~rx_good

C5_PublishesLatestCapture ==
    self_packet.received =>
        /\ self_packet.word0 = captured.word0
        /\ self_packet.word1 = captured.word1

\* A second publication whose two words both differ from the first one's.
C5_Witness ==
    /\ self_packet.received
    /\ pre.self_packet.word0 = 1
    /\ pre.self_packet.word1 = 0
    /\ self_packet.word0 = 0
    /\ self_packet.word1 = 1

(***************************************************************************)
(* Claims about SuperSpeedRequestHandlerMultiplexer, checked under SpecMux.*)
(***************************************************************************)

Registered == 1..Len(interfaces)

\* The handlers that assert the trigger of each fan-in group.
AssertingAddress == {k \in Registered : interfaces[k].address_changed}

AssertingConfig == {k \in Registered : interfaces[k].config_changed}

AssertingTx == {k \in Registered : interfaces[k].tx.valid # {}}

AssertingHandshake ==
    {k \in Registered : interfaces[k].handshakes_out.send_ack
                        \/ interfaces[k].handshakes_out.send_stall}

Lowest(S) == CHOOSE k \in S : \A j \in S : k <= j

Highest(S) == CHOOSE k \in S : \A j \in S : j <= k

\* C6: when one or more handlers assert address_changed, shared new_address
\* is the new_address of the asserting handler registered first; the same
\* for config_changed and new_config.
C6_PriorityLowestIndexWins ==
    elaborated =>
        /\ AssertingAddress # {} =>
              shared.new_address = interfaces[Lowest(AssertingAddress)].new_address
        /\ AssertingConfig # {} =>
              shared.new_config = interfaces[Lowest(AssertingConfig)].new_config

\* Handlers 1 and 2 both assert address_changed and the shared value is
\* handler 1's, which differs from handler 2's.
C6_Witness ==
    /\ elaborated
    /\ {1, 2} \subseteq AssertingAddress
    /\ shared.new_address = interfaces[1].new_address
    /\ shared.new_address # interfaces[2].new_address

\* C7: when one or more handlers assert send_ack or send_stall, the whole
\* shared handshakes_out payload is that of the asserting handler registered
\* last; an earlier handler's request does not show.
C7_HandshakeHighestIndexWins ==
    (elaborated /\ AssertingHandshake # {}) =>
        shared.handshakes_out = interfaces[Highest(AssertingHandshake)].handshakes_out

\* Handler 1 requests an ack, handler 2 a stall: only the stall is shared.
C7_Witness ==
    /\ elaborated
    /\ {1, 2} \subseteq AssertingHandshake
    /\ interfaces[1].handshakes_out = [send_ack |-> TRUE, send_stall |-> FALSE]
    /\ interfaces[2].handshakes_out = [send_ack |-> FALSE, send_stall |-> TRUE]
    /\ shared.handshakes_out = [send_ack |-> FALSE, send_stall |-> TRUE]

\* C8: when one or more handlers have tx valid asserted, the shared tx stream
\* (valid, first, last, data), tx_length and tx_sequence_number are those of
\* the asserting handler registered last.
C8_TransmitHighestIndexWins ==
    (elaborated /\ AssertingTx # {}) =>
        LET w == interfaces[Highest(AssertingTx)]
        IN  /\ shared.tx.valid = w.tx.valid
            /\ shared.tx.first = w.tx.first
            /\ shared.tx.last = w.tx.last
            /\ shared.tx.data = w.tx.data
            /\ shared.tx_length = w.tx_length
            /\ shared.tx_sequence_number = w.tx_sequence_number

\* Handlers 1 and 2 both transmit, with different valid lanes; the shared
\* stream is handler 2's.
C8_Witness ==
    /\ elaborated
    /\ {1, 2} \subseteq AssertingTx
    /\ interfaces[1].tx.valid = Lanes
    /\ interfaces[2].tx.valid = {0}
    /\ shared.tx = interfaces[2].tx
    /\ shared.tx_length = interfaces[2].tx_length
    /\ shared.tx_length # interfaces[1].tx_length

\* C10: when exactly one handler asserts the trigger of a fan-in group, the
\* shared signals of the group are that handler's, whatever its index and
\* the number of registered handlers.
C10_ExclusiveHandlerPassesThrough ==
    elaborated =>
        /\ \A k \in Registered : AssertingAddress = {k} =>
              /\ shared.address_changed = interfaces[k].address_changed
              /\ shared.new_address = interfaces[k].new_address
        /\ \A k \in Registered : AssertingConfig = {k} =>
              /\ shared.config_changed = interfaces[k].config_changed
              /\ shared.new_config = interfaces[k].new_config
        /\ \A k \in Registered : AssertingTx = {k} =>
              /\ shared.tx = interfaces[k].tx
              /\ shared.tx_length = interfaces[k].tx_length
              /\ shared.tx_sequence_number = interfaces[k].tx_sequence_number
        /\ \A k \in Registered : AssertingHandshake = {k} =>
              shared.handshakes_out = interfaces[k].handshakes_out

\* Two handlers registered; each group has exactly one asserting handler,
\* and it is not the same handler for every group.
C10_Witness ==
    /\ elaborated
    /\ Len(interfaces) = 2
    /\ AssertingAddress = {2}
    /\ AssertingConfig = {1}
    /\ AssertingTx = {2}
    /\ AssertingHandshake = {1}
    /\ shared.new_address = interfaces[2].new_address
    /\ shared.handshakes_out = interfaces[1].handshakes_out

(***************************************************************************)
(* Claims about StallOnlyRequestHandler, checked under SpecStall.          *)
(***************************************************************************)

\* C9: in every step the handler's stall output is high if and only if the
\* predicate holds of the current setup packet and, in the same step,
\* data_requested is high or status_requested is high or rx validity shows a
\* falling edge (a lane of rx.valid that was high in the previous step is low
\* in this one).
C9_StallIffConditionAtDecisionPoint ==
    condition.built =>
        (interface.handshakes_out.stall <=>
            /\ interface.setup \in condition.accepts
            /\ \/ interface.data_requested
               \/ interface.status_requested
               \/ \E lane \in Lanes : /\ lane \in stall_pre.rx_valid
                                      /\ lane \notin interface.rx.valid)

\* The stall raised by a falling edge of rx.valid alone, under a predicate
\* that does not accept every setup packet.
C9_Witness ==
    /\ condition.built
    /\ interface.handshakes_out.stall
    /\ ~interface.status_requested
    /\ ~interface.data_requested
    /\ stall_pre.rx_valid = Lanes
    /\ interface.rx.valid = {0}
    /\ condition.accepts # SetupValues

(***************************************************************************)
(* Claims about the handler behind the multiplexer, under SpecStallMux.    *)
(***************************************************************************)

\* C11 (as claimed): with the handler's interface registered with the
\* multiplexer, in every step in which the handler asserts its stall signal
\* and no interface registered after it asserts send_ack or send_stall, the
\* shared handshakes_out.send_stall is asserted.
C11_StallReachesShared ==
    ( /\ elaborated
      /\ stall_at # 0
      /\ interface.handshakes_out.stall
      /\ \A k \in (stall_at + 1)..Len(interfaces) :
            /\ ~interfaces[k].handshakes_out.send_ack
            /\ ~interfaces[k].handshakes_out.send_stall )
    => shared.handshakes_out.send_stall

(***************************************************************************)
(* Claims about the multiplexer's pass-through, checked under SpecFanOut.  *)
(***************************************************************************)

\* C12: in every step and for every registered handler, whatever the
\* handlers drive, the handler's setup, active_config, data_requested,
\* status_requested, rx and handshakes_in equal those of self.shared.
C12_FanOutBroadcast ==
    elaborated =>
        /\ Len(fanout) = Len(interfaces)
        /\ \A k \in 1..Len(interfaces) :
              /\ fanout[k].setup = shared_in.setup
              /\ fanout[k].active_config = shared_in.active_config
              /\ fanout[k].data_requested = shared_in.data_requested
              /\ fanout[k].status_requested = shared_in.status_requested
              /\ fanout[k].rx = shared_in.rx
              /\ fanout[k].handshakes_in = shared_in.handshakes_in

\* Two handlers, the second one requesting a stall, while the endpoint
\* drives non-reset values on every input.
C12_Witness ==
    /\ elaborated
    /\ Len(interfaces) = 2
    /\ interfaces[2].handshakes_out.send_stall
    /\ shared_in.setup.word0 = 1
    /\ shared_in.active_config = 1
    /\ shared_in.status_requested
    /\ ~shared_in.data_requested
    /\ shared_in.rx.valid = Lanes
    /\ shared_in.rx.data = 1
    /\ shared_in.handshakes_in = 1
    /\ fanout[1] = fanout[2]
    /\ fanout[2].status_requested

(***************************************************************************)
(* Further claims about the multiplexer's fan-in, checked under SpecMux.   *)
(***************************************************************************)

\* C18: for each fan-in group the shared trigger is asserted if and only if
\* some registered handler asserts the group's trigger, and when none does
\* (also when no handler is registered) every shared signal of the group is
\* zero.
C18_TriggerIsOrOfHandlers ==
    elaborated =>
        /\ shared.address_changed <=> AssertingAddress # {}
        /\ AssertingAddress = {} => shared.new_address = 0
        /\ shared.config_changed <=> AssertingConfig # {}
        /\ AssertingConfig = {} => shared.new_config = 0
        /\ shared.tx.valid # {} <=> AssertingTx # {}
        /\ AssertingTx = {} =>
              /\ shared.tx = [valid |-> {}, first |-> FALSE, last |-> FALSE, data |-> 0]
              /\ shared.tx_length = 0
              /\ shared.tx_sequence_number = 0
        /\ (shared.handshakes_out.send_ack \/ shared.handshakes_out.send_stall)
              <=> AssertingHandshake # {}

\* Two registered handlers with non-zero values on their signals, none of
\* them asserting any trigger.
C18_Witness ==
    /\ elaborated
    /\ Len(interfaces) = 2
    /\ AssertingAddress = {}
    /\ AssertingConfig = {}
    /\ AssertingTx = {}
    /\ AssertingHandshake = {}
    /\ interfaces[1].new_address # 0
    /\ interfaces[2].tx_length # 0
    /\ shared.new_address = 0
    /\ shared.tx_length = 0

\* Every signal of each group comes from one handler that asserts the
\* group's trigger.
SingleSource ==
    elaborated =>
        /\ AssertingAddress # {} =>
              \E k \in AssertingAddress :
                  /\ shared.address_changed = interfaces[k].address_changed
                  /\ shared.new_address = interfaces[k].new_address
        /\ AssertingConfig # {} =>
              \E k \in AssertingConfig :
                  /\ shared.config_changed = interfaces[k].config_changed
                  /\ shared.new_config = interfaces[k].new_config
        /\ AssertingTx # {} =>
              \E k \in AssertingTx :
                  /\ shared.tx = interfaces[k].tx
                  /\ shared.tx_length = interfaces[k].tx_length
                  /\ shared.tx_sequence_number = interfaces[k].tx_sequence_number
        /\ AssertingHandshake # {} =>
              \E k \in AssertingHandshake :
                  shared.handshakes_out = interfaces[k].handshakes_out

\* The triggers of each group, per handler.
AddressTriggers == [k \in Registered |-> interfaces[k].address_changed]

ConfigTriggers == [k \in Registered |-> interfaces[k].config_changed]

TxTriggers == [k \in Registered |-> interfaces[k].tx.valid]

HandshakeTriggers == [k \in Registered |-> interfaces[k].handshakes_out]

\* A step that leaves the triggers of a group alone leaves the shared
\* signals of the group alone, whatever the other groups do.
GroupsIndependent ==
    (elaborated /\ elaborated') =>
        /\ AddressTriggers' = AddressTriggers =>
              /\ shared'.address_changed = shared.address_changed
              /\ shared'.new_address = shared.new_address
        /\ ConfigTriggers' = ConfigTriggers =>
              /\ shared'.config_changed = shared.config_changed
              /\ shared'.new_config = shared.new_config
        /\ TxTriggers' = TxTriggers =>
              /\ shared'.tx = shared.tx
              /\ shared'.tx_length = shared.tx_length
              /\ shared'.tx_sequence_number = shared.tx_sequence_number
        /\ HandshakeTriggers' = HandshakeTriggers =>
              shared'.handshakes_out = shared.handshakes_out

\* C19: the winner of each fan-in group depends on that group's triggers
\* only, so different groups can be driven by different handlers in the same
\* step, while the shared signals inside one group always come from one
\* single handler.
C19_GroupsIndependent == []SingleSource /\ [][GroupsIndependent]_vars

\* Both handlers assert address_changed and a handshake request: the shared
\* address is handler 1's while the shared handshake is handler 2's.
C19_Witness ==
    /\ elaborated
    /\ AssertingAddress = {1, 2}
    /\ interfaces[1].handshakes_out = [send_ack |-> TRUE, send_stall |-> FALSE]
    /\ interfaces[2].handshakes_out = [send_ack |-> FALSE, send_stall |-> TRUE]
    /\ shared.new_address = interfaces[1].new_address
    /\ shared.new_address # interfaces[2].new_address
    /\ shared.handshakes_out = interfaces[2].handshakes_out

(***************************************************************************)
(* Further claims about the decoder, checked under SpecDecoder and         *)
(* SpecDecoderLive.                                                        *)
(***************************************************************************)

\* C13: the words of self.packet (request_type, request, value, index,
\* length) differ from those of the step before only if the decoder was in
\* WAIT_FOR_VALID and rx_good was asserted on that edge.
C13_VisibleOnlyOnCommit ==
    (\/ self_packet.word0 # pre.self_packet.word0
     \/ self_packet.word1 # pre.self_packet.word1)
        => (pre.fsm = "WAIT_FOR_VALID" /\ rx_good)

\* A commit changes the visible words, and the captures of the next packet
\* that went before it did not.
C13_Witness ==
    /\ pre.fsm = "WAIT_FOR_VALID"
    /\ rx_good
    /\ self_packet.word0 # pre.self_packet.word0
    /\ self_packet.word1 # pre.self_packet.word1
    /\ pre.self_packet.word0 # pre.packet.word0

\* Some input of the next clock edge takes the decoder to another state.
CanLeave == ENABLED (DecoderNext /\ fsm' # fsm)

\* C14: if the framing layer eventually reports rx_good or rx_bad while the
\* decoder waits in WAIT_FOR_VALID, every visit to WAIT_FOR_VALID is
\* eventually followed by WAIT_FOR_FIRST; and no state of the decoder is
\* terminal.
C14_VerdictReturnsToFirst ==
    /\ []CanLeave
    /\ (fsm = "WAIT_FOR_VALID") ~> (fsm = "WAIT_FOR_FIRST")

\* A verdict has taken the decoder from WAIT_FOR_VALID to WAIT_FOR_FIRST.
C14_Witness ==
    /\ pre.fsm = "WAIT_FOR_VALID"
    /\ rx_good \/ rx_bad
    /\ fsm = "WAIT_FOR_FIRST"

\* C15: in PARSE_SECOND a fully valid word that is not marked last takes the
\* decoder to WAIT_FOR_FIRST; received stays low and the published words are
\* unchanged, and a publish only ever comes out of WAIT_FOR_VALID, whose
\* buffer holds the two words of the decode that reached it.
C15_NonFinalWordDiscards ==
    /\ (pre.fsm = "PARSE_SECOND" /\ all(sink.valid) /\ ~sink.last) =>
          /\ fsm = "WAIT_FOR_FIRST"
          /\ ~self_packet.received
          /\ self_packet.word0 = pre.self_packet.word0
          /\ self_packet.word1 = pre.self_packet.word1
    /\ self_packet.received => pre.fsm = "WAIT_FOR_VALID"
    /\ fsm = "WAIT_FOR_VALID" =>
          /\ packet.word0 = captured.word0
          /\ packet.word1 = captured.word1

\* A non-final second word, without rx_bad, whose attempt had captured a
\* first word that differs from the published one.
C15_Witness ==
    /\ pre.fsm = "PARSE_SECOND"
    /\ all(sink.valid)
    /\ ~sink.last
    /\ ~rx_bad
    /\ fsm = "WAIT_FOR_FIRST"
    /\ packet.word0 # self_packet.word0

\* C16: in PARSE_SECOND rx_bad together with a fully valid word marked last
\* leads to WAIT_FOR_FIRST, not WAIT_FOR_VALID, and rx_good outside
\* WAIT_FOR_VALID publishes nothing.
C16_BadBeatsLastWord ==
    /\ (pre.fsm = "PARSE_SECOND" /\ rx_bad /\ all(sink.valid) /\ sink.last) =>
          /\ fsm = "WAIT_FOR_FIRST"
          /\ ~self_packet.received
    /\ (pre.fsm # "WAIT_FOR_VALID" /\ rx_good) =>
          /\ ~self_packet.received
          /\ self_packet.word0 = pre.self_packet.word0
          /\ self_packet.word1 = pre.self_packet.word1

\* rx_bad arrived with the last word; the buffer took the word all the same.
C16_Witness ==
    /\ pre.fsm = "PARSE_SECOND"
    /\ rx_bad
    /\ all(sink.valid)
    /\ sink.last
    /\ fsm = "WAIT_FOR_FIRST"
    /\ packet.word1 = sink.data
    /\ packet.word1 # pre.packet.word1

\* C17: in WAIT_FOR_VALID a step without rx_good and without rx_bad leaves
\* the decoder in WAIT_FOR_VALID with the buffer and self.packet unchanged,
\* whatever the stream carries.
C17_NoVerdictWaits ==
    (pre.fsm = "WAIT_FOR_VALID" /\ ~rx_good /\ ~rx_bad) =>
        /\ fsm = "WAIT_FOR_VALID"
        /\ packet = pre.packet
        /\ self_packet = pre.self_packet

\* No verdict, while the stream offers what would start a new setup packet.
C17_Witness ==
    /\ pre.fsm = "WAIT_FOR_VALID"
    /\ ~rx_good
    /\ ~rx_bad
    /\ all(sink.valid)
    /\ sink.first
    /\ sink.last
    /\ header_in.setup
    /\ sink.data # packet.word0
    /\ sink.data # packet.word1
    /\ fsm = "WAIT_FOR_VALID"

====
